---- MODULE Spec2Model ----
(***************************************************************************)
(* A state-machine model of the SDISC cycle-counted instruction-set        *)
(* simulator (src/SDISC.hpp): the CPU's members, reset / loadProgram /     *)
(* start, the fetch-execute loop and the sixteen instruction handlers.     *)
(*                                                                         *)
(* One host thread drives one CPU.  `ctl` is that thread's position: idle  *)
(* between calls, or inside start()'s while loop.  One Cycle step is one   *)
(* iteration of the loop body RUN(program[PC++]).  A second CPU object     *)
(* with a thread of its own is held in `other`; only TwoSpec schedules it. *)
(*                                                                         *)
(* The two 65536-element arrays (program, mem) are held extensionally: an  *)
(* array value is its size, the value most of its elements have (fill) and *)
(* the finitely many elements that differ from it (cells).  At(a, i) is    *)
(* a[i]; the form is canonical, so equal arrays are equal values.          *)
(***************************************************************************)
EXTENDS Integers, Sequences, FiniteSets, TLC

(***************************************************************************)
(* Types and constants                                                     *)
(***************************************************************************)
\* WORD = uint16_t: the number of values of a WORD
WORD_RANGE == 65536
\* int is 32 bits wide on the builds considered: uint16_t operands are
\* promoted to int before every arithmetic operator
INT_MAX == 2147483647

mem_size == 65536
pro_size == 65536
reg_size == 16

init_mem == 65535
init_reg == 0

\* Conversion of an int result back to WORD on assignment to a WORD lvalue
ToWORD(x) == x % WORD_RANGE

(***************************************************************************)
(* Opcodes (the anonymous enum in namespace OP) and their tick costs       *)
(***************************************************************************)
OP_STP == 0
OP_JAL == 1
OP_JIE == 2
OP_JIL == 3
OP_STR == 4
OP_LOD == 5
OP_SHB == 6
OP_SLB == 7
OP_AND == 8
OP_NND == 9
OP_IOR == 10
OP_XOR == 11
OP_ADD == 12
OP_SUB == 13
OP_DIV == 14
OP_MUL == 15

\* tick_count[0x10], indexed here from 1: the cost of opcode c is TickTable[c + 1]
TickTable == <<2, 4, 6, 6, 12, 8, 4, 4, 4, 4, 4, 4, 8, 8, 16, 32>>
tick_count(c) == TickTable[c + 1]

(***************************************************************************)
(* Bitwise operators on non-negative integers                              *)
(***************************************************************************)
RECURSIVE BitAnd(_, _)
BitAnd(x, y) ==
  IF x = 0 \/ y = 0 THEN 0
  ELSE (x % 2) * (y % 2) + 2 * BitAnd(x \div 2, y \div 2)

RECURSIVE BitOr(_, _)
BitOr(x, y) ==
  IF x = 0 THEN y
  ELSE IF y = 0 THEN x
  ELSE ((x % 2) + (y % 2) - (x % 2) * (y % 2)) + 2 * BitOr(x \div 2, y \div 2)

RECURSIVE BitXor(_, _)
BitXor(x, y) ==
  IF x = 0 THEN y
  ELSE IF y = 0 THEN x
  ELSE (((x % 2) + (y % 2)) % 2) + 2 * BitXor(x \div 2, y \div 2)

\* ~x on an int (two's complement): -x - 1
BitNot(x) == (0 - x) - 1

(***************************************************************************)
(* std::array<T, n>                                                        *)
(***************************************************************************)
\* n elements, all v (a range-for loop assigning v to every element)
Arr(n, v) == [size |-> n, fill |-> v, cells |-> [j \in {} |-> v]]

\* a[i], for 0 <= i < a.size
At(a, i) == IF i \in DOMAIN a.cells THEN a.cells[i] ELSE a.fill

\* a after a[i] = v, for 0 <= i < a.size
Put(a, i, v) ==
  LET d == IF v = a.fill THEN DOMAIN a.cells \ {i} ELSE DOMAIN a.cells \cup {i}
  IN [a EXCEPT !.cells = [j \in d |-> IF j = i THEN v ELSE a.cells[j]]]

(***************************************************************************)
(* struct Instruction: the bit-fields code : 4 and rega : 4, then the byte *)
(* shared by the union { struct { regb : 4, regc : 4 }; byte : 8 }.  An    *)
(* instruction value is the record of code, rega and that shared byte.     *)
(* How regb and regc are allocated inside the byte is implementation-      *)
(* defined; `regb_low` (a variable fixed by Init) says whether the first   *)
(* declared bit-field, regb, takes the low-order nibble.                   *)
(***************************************************************************)
VARIABLES
  tick,      \* COUNT tick
  status,    \* STATE status
  PC,        \* WORD PC
  program,   \* std::array<Instruction, pro_size>
  reg,       \* std::array<WORD, reg_size>
  mem,       \* std::array<WORD, mem_size>
  regb_low,  \* the build's bit-field allocation order
  ctl,       \* the host thread: "idle" or "start" (inside start's loop)
  fault,     \* "none", or the signal that killed the process
  loaded,    \* history: index in Programs of the last loadProgram argument, 0 if none
  starts,    \* history: start() calls since the last reset
  executed,  \* history: opcodes of the instructions completed since the last reset
  run,       \* history: the current / last start() call
  last,      \* history: the last step taken
  other      \* a second CPU object and its host thread, while not scheduled

cpu == <<tick, status, PC, program, reg, mem>>
vars == <<tick, status, PC, program, reg, mem, regb_low, ctl, fault,
          loaded, starts, executed, run, last, other>>

\* The shared byte after regb{rb}, regc{rc}
PackByte(low, rb, rc) ==
  IF low THEN (rb % 16) + 16 * (rc % 16) ELSE 16 * (rb % 16) + (rc % 16)

\* Instruction(), Instruction(op), Instruction(op, ra, rb, rc), Instruction(op, ra, b)
Instruction0 == [code |-> OP_STP, rega |-> 0, byte |-> 0]
Instruction1(op) == [code |-> op % 16, rega |-> 0, byte |-> 0]
Instruction4(low, op, ra, rb, rc) ==
  [code |-> op % 16, rega |-> ra % 16, byte |-> PackByte(low, rb, rc)]
Instruction3(op, ra, b) == [code |-> op % 16, rega |-> ra % 16, byte |-> b % 256]

init_pro == Instruction0

\* data.regb and data.regc, read out of the shared byte
regb(data) == IF regb_low THEN data.byte % 16 ELSE data.byte \div 16
regc(data) == IF regb_low THEN data.byte \div 16 ELSE data.byte % 16

(***************************************************************************)
(* Bounds of the model                                                     *)
(***************************************************************************)
\* start() calls explored between two resets
MaxStarts == 2
\* the loop is not followed once the Clock exceeds this
MaxTick == 220

(***************************************************************************)
(* History records                                                         *)
(***************************************************************************)
\* What the step being taken is, and the members' values before it
Snapshot(op, at, data, arg) ==
  [op |-> op, pc |-> at, ins |-> data, arg |-> arg,
   reg |-> reg, mem |-> mem, program |-> program, tick |-> tick, PC |-> PC,
   status |-> status, loaded |-> loaded]

\* A start() call: its argument, the instructions and the STPs completed
\* in it so far, and the Clock, registers and memory it found
RunRecord(start_pc) ==
  [pc |-> start_pc, n |-> 0, stp |-> 0, tick |-> tick, reg |-> reg, mem |-> mem]

\* CPU object i and its host thread as they stand, set aside while the
\* other object's thread runs: every member and the thread's position (the
\* build and the process, regb_low and fault, are common to both)
Parked(i) ==
  [id |-> i, tick |-> tick, status |-> status, PC |-> PC, program |-> program,
   reg |-> reg, mem |-> mem, ctl |-> ctl, loaded |-> loaded, starts |-> starts,
   executed |-> executed, run |-> run, last |-> last]

(***************************************************************************)
(* Clock                                                                   *)
(***************************************************************************)
\* addTicks: tick += OP::tick_count[data.code]
addTicks(data) == tick' = tick + tick_count(data.code)

(***************************************************************************)
(* Instruction handlers.  `pc` is the value of member PC when the handler  *)
(* is entered, i.e. after the fetch's PC++.  Each handler fixes PC', reg', *)
(* mem', status', tick' and fault'.                                        *)
(***************************************************************************)
\* SetRegA as it would be if the registers were wider than 16 bits
SetRegA_Unconverted(data, pc, v) ==
  /\ reg' = [reg EXCEPT ![data.rega] = v]
  /\ PC' = pc
  /\ addTicks(data)
  /\ UNCHANGED <<mem, status, fault>>

\* reg[data.rega] = v, then addTicks; PC stays as the fetch left it
SetRegA(data, pc, v) ==
  /\ reg' = [reg EXCEPT ![data.rega] = ToWORD(v)]
  /\ PC' = pc
  /\ addTicks(data)
  /\ UNCHANGED <<mem, status, fault>>

\* The process is killed by a signal inside the handler: nothing after the
\* fetch's PC++ happens
Killed(pc, sig) ==
  /\ fault' = sig
  /\ PC' = pc
  /\ UNCHANGED <<reg, mem, status, tick>>

\* STP as it would be without the assignment to status
STP_KeepsRunning(data, pc) ==
  /\ PC' = pc
  /\ addTicks(data)
  /\ UNCHANGED <<reg, mem, status, fault>>

STP(data, pc) ==
  /\ status' = "stopped"
  /\ PC' = pc
  /\ addTicks(data)
  /\ UNCHANGED <<reg, mem, fault>>

JAL(data, pc) ==
  LET old_PC == ToWORD(pc + 1)
  IN /\ PC' = reg[regb(data)]
     /\ reg' = [reg EXCEPT ![data.rega] = old_PC]
     /\ addTicks(data)
     /\ UNCHANGED <<mem, status, fault>>

\* JIE as it would be if a taken branch cost two more ticks
JIE_TakenCostsMore(data, pc) ==
  /\ PC' = IF reg[data.rega] = reg[regb(data)] THEN reg[regc(data)] ELSE pc
  /\ tick' = tick + tick_count(data.code)
               + (IF reg[data.rega] = reg[regb(data)] THEN 2 ELSE 0)
  /\ UNCHANGED <<reg, mem, status, fault>>

JIE(data, pc) ==
  /\ PC' = IF reg[data.rega] = reg[regb(data)] THEN reg[regc(data)] ELSE pc
  /\ addTicks(data)
  /\ UNCHANGED <<reg, mem, status, fault>>

\* JIL as it would be if the registers were compared as signed 16-bit values
JIL_Signed(data, pc) ==
  LET x == reg[data.rega]
      y == reg[regb(data)]
      sx == IF x >= 32768 THEN x - WORD_RANGE ELSE x
      sy == IF y >= 32768 THEN y - WORD_RANGE ELSE y
  IN /\ PC' = IF sx < sy THEN reg[regc(data)] ELSE pc
     /\ addTicks(data)
     /\ UNCHANGED <<reg, mem, status, fault>>

JIL(data, pc) ==
  /\ PC' = IF reg[data.rega] < reg[regb(data)] THEN reg[regc(data)] ELSE pc
  /\ addTicks(data)
  /\ UNCHANGED <<reg, mem, status, fault>>

\* STR as it would be with the address and the value registers exchanged
STR_Swapped(data, pc) ==
  /\ mem' = Put(mem, reg[data.rega], reg[regb(data)])
  /\ PC' = pc
  /\ addTicks(data)
  /\ UNCHANGED <<reg, status, fault>>

STR(data, pc) ==
  /\ mem' = Put(mem, reg[regb(data)], reg[data.rega])
  /\ PC' = pc
  /\ addTicks(data)
  /\ UNCHANGED <<reg, status, fault>>

LOD(data, pc) == SetRegA(data, pc, At(mem, reg[regb(data)]))

\* SHB as it would be with the mask of SLB (the high byte kept, not the low)
SHB_KeepsHighByte(data, pc) ==
  SetRegA(data, pc, BitOr(BitAnd(reg[data.rega], 65280), data.byte * 256))

\* reg[rega] &= 0x00ff; reg[rega] |= data.byte << 8
SHB(data, pc) ==
  SetRegA(data, pc, BitOr(BitAnd(reg[data.rega], 255), data.byte * 256))

\* reg[rega] &= 0xff00; reg[rega] |= data.byte
SLB(data, pc) ==
  SetRegA(data, pc, BitOr(BitAnd(reg[data.rega], 65280), data.byte))

AND(data, pc) == SetRegA(data, pc, BitAnd(reg[regb(data)], reg[regc(data)]))

\* NND as it would be with the complement taken of reg[regb] alone
NND_ComplementsFirst(data, pc) ==
  SetRegA(data, pc, BitAnd(ToWORD(BitNot(reg[regb(data)])), reg[regc(data)]))

NND(data, pc) == SetRegA(data, pc, BitNot(BitAnd(reg[regb(data)], reg[regc(data)])))

IOR(data, pc) == SetRegA(data, pc, BitOr(reg[regb(data)], reg[regc(data)]))

XOR(data, pc) == SetRegA(data, pc, BitXor(reg[regb(data)], reg[regc(data)]))

ADD(data, pc) == SetRegA(data, pc, reg[regb(data)] + reg[regc(data)])

SUB(data, pc) == SetRegA(data, pc, reg[regb(data)] - reg[regc(data)])

\* (x * y) mod 2^16 without forming a product wider than int
MulWrapped(x, y) ==
  ((x % 256) * y + (((x \div 256) * y) % 256) * 256) % WORD_RANGE

\* x * y as int overflows: undefined behaviour
MulOverflows(x, y) == x > 0 /\ y > INT_MAX \div x

\* reg[rega] = reg[regb] * reg[regc], the operands promoted to int.  On
\* overflow the build either wraps (the usual two's-complement multiply) or,
\* built to trap on signed overflow, aborts.
MUL(data, pc) ==
  LET x == reg[regb(data)]
      y == reg[regc(data)]
  IN IF MulOverflows(x, y)
     THEN \/ SetRegA(data, pc, MulWrapped(x, y))
          \/ Killed(pc, "SIGABRT")
     ELSE SetRegA(data, pc, x * y)

\* What an integer division by zero leaves in the quotient on targets whose
\* divide instruction does not trap (0, or all bits set)
DivZeroResults == {0, WORD_RANGE - 1}

\* reg[rega] = reg[regb] / reg[regc].  Division by zero is undefined
\* behaviour: the process is killed (SIGFPE), or a target-defined quotient
\* is stored and execution goes on.
DIV(data, pc) ==
  LET x == reg[regb(data)]
      y == reg[regc(data)]
  IN IF y = 0
     THEN \/ Killed(pc, "SIGFPE")
          \/ \E q \in DivZeroResults : SetRegA(data, pc, q)
     ELSE SetRegA(data, pc, x \div y)

\* The fall-through `return 0` of RUN
NoHandler(data, pc) ==
  /\ PC' = pc
  /\ UNCHANGED <<reg, mem, status, tick, fault>>

\* RUN as it would be with the case for XOR missing
RUN_WithoutXor(data, pc) ==
  IF data.code = OP_STP THEN STP(data, pc)
  ELSE IF data.code = OP_JAL THEN JAL(data, pc)
  ELSE IF data.code = OP_JIE THEN JIE(data, pc)
  ELSE IF data.code = OP_JIL THEN JIL(data, pc)
  ELSE IF data.code = OP_STR THEN STR(data, pc)
  ELSE IF data.code = OP_LOD THEN LOD(data, pc)
  ELSE IF data.code = OP_SHB THEN SHB(data, pc)
  ELSE IF data.code = OP_SLB THEN SLB(data, pc)
  ELSE IF data.code = OP_AND THEN AND(data, pc)
  ELSE IF data.code = OP_NND THEN NND(data, pc)
  ELSE IF data.code = OP_IOR THEN IOR(data, pc)
  ELSE IF data.code = OP_ADD THEN ADD(data, pc)
  ELSE IF data.code = OP_SUB THEN SUB(data, pc)
  ELSE IF data.code = OP_MUL THEN MUL(data, pc)
  ELSE IF data.code = OP_DIV THEN DIV(data, pc)
  ELSE NoHandler(data, pc)

RUN(data, pc) ==
  IF data.code = OP_STP THEN STP(data, pc)
  ELSE IF data.code = OP_JAL THEN JAL(data, pc)
  ELSE IF data.code = OP_JIE THEN JIE(data, pc)
  ELSE IF data.code = OP_JIL THEN JIL(data, pc)
  ELSE IF data.code = OP_STR THEN STR(data, pc)
  ELSE IF data.code = OP_LOD THEN LOD(data, pc)
  ELSE IF data.code = OP_SHB THEN SHB(data, pc)
  ELSE IF data.code = OP_SLB THEN SLB(data, pc)
  ELSE IF data.code = OP_AND THEN AND(data, pc)
  ELSE IF data.code = OP_NND THEN NND(data, pc)
  ELSE IF data.code = OP_IOR THEN IOR(data, pc)
  ELSE IF data.code = OP_XOR THEN XOR(data, pc)
  ELSE IF data.code = OP_ADD THEN ADD(data, pc)
  ELSE IF data.code = OP_SUB THEN SUB(data, pc)
  ELSE IF data.code = OP_MUL THEN MUL(data, pc)
  ELSE IF data.code = OP_DIV THEN DIV(data, pc)
  ELSE NoHandler(data, pc)

(***************************************************************************)
(* The programs the host loads and the addresses it starts at              *)
(***************************************************************************)
\* A single STP
StopProgram == <<Instruction1(OP_STP)>>

\* Link-and-jump and both conditional jumps, taken and not taken
JumpProgram(low) ==
  << Instruction3(OP_SLB, 2, 5),
     Instruction4(low, OP_JAL, 1, 2, 0),
     Instruction1(OP_STP),
     Instruction4(low, OP_JIE, 0, 2, 0),
     Instruction1(OP_STP),
     Instruction4(low, OP_JIL, 0, 2, 1) >>

\* Set, store, load, the bitwise operators, add and subtract
DataProgram(low) ==
  << Instruction3(OP_SHB, 1, 171),
     Instruction3(OP_SLB, 1, 205),
     Instruction4(low, OP_STR, 1, 2, 0),
     Instruction4(low, OP_LOD, 3, 2, 0),
     Instruction4(low, OP_NND, 4, 1, 3),
     Instruction4(low, OP_AND, 5, 1, 4),
     Instruction4(low, OP_IOR, 6, 1, 4),
     Instruction4(low, OP_XOR, 7, 1, 6),
     Instruction4(low, OP_ADD, 8, 6, 1),
     Instruction4(low, OP_SUB, 9, 0, 1) >>

\* Opcodes 0xF and 0xE on 7 and 2, then opcode 0xE with a zero reg[regc]
MathProgram(low) ==
  << Instruction3(OP_SLB, 1, 7),
     Instruction3(OP_SLB, 2, 2),
     Instruction4(low, 15, 3, 1, 2),
     Instruction4(low, 14, 4, 1, 2),
     Instruction4(low, 14, 5, 1, 0) >>

\* Never reaches a STP while reg[0] = 0
LoopProgram(low) == << Instruction4(low, OP_JIE, 0, 0, 0) >>

\* One instruction of every opcode and the boundary cases: both bytes of a
\* register set in turn, NND of 0xFFFF with itself, 0xFFFF + 1, 0 - 1,
\* 0x8000 * 2, the conditional jumps on 0x0001 against 0xFFFF, rega among
\* the operands, 0xFFFF * 0xFFFF, and a JAL to a slot outside the program
\* whose link register is its target register
EdgeProgram(low) ==
  << Instruction3(OP_SLB, 1, 205),
     Instruction3(OP_SHB, 2, 255),
     Instruction3(OP_SLB, 2, 255),
     Instruction4(low, OP_STR, 1, 2, 0),
     Instruction3(OP_SHB, 1, 171),
     Instruction3(OP_SLB, 1, 239),
     Instruction4(low, OP_NND, 3, 2, 2),
     Instruction3(OP_SLB, 4, 1),
     Instruction4(low, OP_ADD, 5, 2, 4),
     Instruction4(low, OP_SUB, 6, 3, 4),
     Instruction3(OP_SHB, 8, 128),
     Instruction3(OP_SLB, 9, 2),
     Instruction4(low, OP_MUL, 10, 8, 9),
     Instruction4(low, OP_DIV, 11, 1, 9),
     Instruction4(low, OP_LOD, 12, 2, 0),
     Instruction4(low, OP_AND, 13, 1, 12),
     Instruction4(low, OP_IOR, 14, 1, 12),
     Instruction4(low, OP_XOR, 15, 1, 12),
     Instruction3(OP_SLB, 7, 21),
     Instruction4(low, OP_JIL, 4, 2, 7),
     Instruction1(OP_STP),
     Instruction4(low, OP_JIL, 2, 4, 7),
     Instruction4(low, OP_JIE, 2, 4, 7),
     Instruction4(low, OP_ADD, 4, 4, 4),
     Instruction4(low, OP_SUB, 9, 2, 9),
     Instruction4(low, OP_NND, 2, 2, 1),
     Instruction4(low, OP_MUL, 6, 6, 6),
     Instruction4(low, OP_JAL, 12, 12, 0) >>

(***************************************************************************)
(* std::vector<Instruction>, the argument of loadProgram: its size, and    *)
(* its elements held as an array's are (every element outside cells is a   *)
(* default-constructed Instruction)                                        *)
(***************************************************************************)
\* The vector holding the elements of the tuple seq
Vec(seq) ==
  [size |-> Len(seq), fill |-> init_pro,
   cells |-> [i \in {j \in 0..(Len(seq) - 1) : seq[j + 1] # init_pro} |-> seq[i + 1]]]

\* As long as the store: a non-jumping instruction in the last slot
FullProgram ==
  [size |-> pro_size, fill |-> init_pro,
   cells |-> [i \in {pro_size - 1} |-> Instruction3(OP_SLB, 1, 1)]]

\* One instruction longer than the store
LongProgram ==
  [size |-> pro_size + 1, fill |-> init_pro,
   cells |-> [i \in {0, pro_size} |-> Instruction3(OP_SLB, 2, 9)]]

ProgramIds == 1..8

Programs(low, k) ==
  CASE k = 1 -> Vec(StopProgram)
    [] k = 2 -> Vec(JumpProgram(low))
    [] k = 3 -> Vec(DataProgram(low))
    [] k = 4 -> Vec(MathProgram(low))
    [] k = 5 -> Vec(LoopProgram(low))
    [] k = 6 -> FullProgram
    [] k = 7 -> LongProgram
    [] k = 8 -> Vec(EdgeProgram(low))

StartPCs == {0, 1, WORD_RANGE - 1}

(***************************************************************************)
(* CPU control                                                             *)
(***************************************************************************)
\* The members after construction: the default member initializers, then
\* the constructor's reset()
Init ==
  /\ tick = 0
  /\ status = "stopped"
  /\ PC = 0
  /\ program = Arr(pro_size, init_pro)
  /\ mem = Arr(mem_size, init_mem)
  /\ reg = [i \in 0..(reg_size - 1) |-> init_reg]
  /\ regb_low \in BOOLEAN
  /\ ctl = "idle"
  /\ fault = "none"
  /\ loaded = 0
  /\ starts = 0
  /\ executed = <<>>
  /\ run = RunRecord(0)
  /\ last = Snapshot("none", 0, init_pro, 0)
  /\ other = Parked(2)

\* reset() as it would be without the loop over mem
resetBody_KeepsMemory ==
  /\ tick' = 0
  /\ status' = "stopped"
  /\ program' = Arr(pro_size, init_pro)
  /\ reg' = [i \in 0..(reg_size - 1) |-> init_reg]
  /\ UNCHANGED <<PC, mem>>

\* What reset() assigns
resetBody ==
  /\ tick' = 0
  /\ status' = "stopped"
  /\ program' = Arr(pro_size, init_pro)
  /\ mem' = Arr(mem_size, init_mem)
  /\ reg' = [i \in 0..(reg_size - 1) |-> init_reg]
  /\ UNCHANGED PC

reset ==
  /\ ctl = "idle"
  /\ fault = "none"
  /\ resetBody
  /\ last' = Snapshot("reset", PC, init_pro, 0)
  /\ loaded' = 0
  /\ starts' = 0
  /\ executed' = <<>>
  /\ UNCHANGED <<regb_low, ctl, fault, run, other>>

\* loadProgram as it would be without the else branch: the slots from
\* in_program.size() on keep what they held
loadBody_NoFill(in_program) ==
  /\ program' = [size |-> pro_size, fill |-> init_pro,
                 cells |-> [i \in {j \in DOMAIN in_program.cells : j < pro_size}
                                   \cup {j \in DOMAIN program.cells : j >= in_program.size}
                              |-> IF i < in_program.size THEN in_program.cells[i]
                                  ELSE program.cells[i]]]
  /\ UNCHANGED <<tick, status, PC, reg, mem>>

\* What loadProgram(in_program) assigns: for every i < pro_size,
\* program[i] = in_program[i] if i < in_program.size(), else init_pro
loadBody(in_program) ==
  /\ program' = [size |-> pro_size, fill |-> init_pro,
                 cells |-> [i \in {j \in DOMAIN in_program.cells : j < pro_size}
                              |-> in_program.cells[i]]]
  /\ UNCHANGED <<tick, status, PC, reg, mem>>

loadProgram(k) ==
  /\ ctl = "idle"
  /\ fault = "none"
  /\ loadBody(Programs(regb_low, k))
  /\ last' = Snapshot("load", PC, init_pro, k)
  /\ loaded' = k
  /\ UNCHANGED <<regb_low, ctl, fault, starts, executed, run, other>>

\* start(start_pc) up to its while loop, as it would be if it cleared the
\* Clock
startBody_ClearsClock(start_pc) ==
  /\ PC' = start_pc
  /\ status' = "running"
  /\ tick' = 0
  /\ UNCHANGED <<program, reg, mem>>

\* start(start_pc) up to its while loop
startBody(start_pc) ==
  /\ PC' = start_pc
  /\ status' = "running"
  /\ UNCHANGED <<tick, program, reg, mem>>

start(start_pc) ==
  /\ ctl = "idle"
  /\ fault = "none"
  /\ starts < MaxStarts
  /\ startBody(start_pc)
  /\ ctl' = "start"
  /\ starts' = starts + 1
  /\ run' = RunRecord(start_pc)
  /\ last' = Snapshot("start", PC, init_pro, start_pc)
  /\ UNCHANGED <<regb_low, fault, loaded, executed, other>>

\* The loop body as it would be if PC were wider than 16 bits
Cycle_WidePC ==
  /\ ctl = "start"
  /\ fault = "none"
  /\ status # "stopped"
  /\ tick <= MaxTick
  /\ LET data == At(program, PC)
     IN /\ RUN(data, PC + 1)
        /\ last' = Snapshot("cycle", PC, data, 0)
        /\ executed' = IF fault' = "none" THEN Append(executed, data.code) ELSE executed
        /\ run' = IF fault' = "none"
                  THEN [run EXCEPT !.n = @ + 1,
                                   !.stp = @ + (IF data.code = OP_STP THEN 1 ELSE 0)]
                  ELSE run
  /\ UNCHANGED <<program, regb_low, ctl, loaded, starts, other>>

\* The loop body as it would be if tick were a static member, one Clock
\* for every CPU object
Cycle_SharedClock ==
  /\ ctl = "start"
  /\ fault = "none"
  /\ status # "stopped"
  /\ tick <= MaxTick
  /\ LET data == At(program, PC)
     IN /\ RUN(data, ToWORD(PC + 1))
        /\ last' = Snapshot("cycle", PC, data, 0)
        /\ executed' = IF fault' = "none" THEN Append(executed, data.code) ELSE executed
        /\ run' = IF fault' = "none"
                  THEN [run EXCEPT !.n = @ + 1,
                                   !.stp = @ + (IF data.code = OP_STP THEN 1 ELSE 0)]
                  ELSE run
  /\ other' = [other EXCEPT !.tick = @ + (tick' - tick)]
  /\ UNCHANGED <<program, regb_low, ctl, loaded, starts>>

\* One iteration of start's loop: RUN(program[PC++])
Cycle ==
  /\ ctl = "start"
  /\ fault = "none"
  /\ status # "stopped"
  /\ tick <= MaxTick
  /\ LET data == At(program, PC)
     IN /\ RUN(data, ToWORD(PC + 1))
        /\ last' = Snapshot("cycle", PC, data, 0)
        /\ executed' = IF fault' = "none" THEN Append(executed, data.code) ELSE executed
        /\ run' = IF fault' = "none"
                  THEN [run EXCEPT !.n = @ + 1,
                                   !.stp = @ + (IF data.code = OP_STP THEN 1 ELSE 0)]
                  ELSE run
  /\ UNCHANGED <<program, regb_low, ctl, loaded, starts, other>>

\* The return as it would be if the loop tested the wrong state
Return_WhileRunning ==
  /\ ctl = "start"
  /\ fault = "none"
  /\ status = "running"
  /\ ctl' = "idle"
  /\ last' = Snapshot("return", PC, init_pro, 0)
  /\ UNCHANGED <<cpu, regb_low, fault, loaded, starts, executed, run, other>>

\* The loop condition fails and start returns
Return ==
  /\ ctl = "start"
  /\ fault = "none"
  /\ status = "stopped"
  /\ ctl' = "idle"
  /\ last' = Snapshot("return", PC, init_pro, 0)
  /\ UNCHANGED <<cpu, regb_low, fault, loaded, starts, executed, run, other>>

\* The host loads a program after construction, a reset or a run: a second
\* load in a row would only replace the whole store again
HostLoads(k) == last.op # "load" /\ loadProgram(k)

Next ==
  \/ reset
  \/ \E k \in ProgramIds : HostLoads(k)
  \/ \E start_pc \in StartPCs : start(start_pc)
  \/ Cycle
  \/ Return

Spec == Init /\ [][Next]_vars

\* The host thread keeps running: once the loop condition fails, start returns
FairSpec == Spec /\ WF_vars(Return)

(***************************************************************************)
(* Two CPU objects, each driven by a thread of its own.  The variables     *)
(* tick .. last are the object whose thread is running, `other` the object *)
(* whose thread is not; the scheduler may switch between any two steps.    *)
(* Each thread loads one program and calls start once; the programs are    *)
(* those that run without undefined behaviour.                             *)
(***************************************************************************)
TwoProgramIds == {2, 3}
TwoStartPCs == {0, 1}

\* The running thread is descheduled and the other one resumes
Switch ==
  /\ fault = "none"
  /\ other' = Parked(3 - other.id)
  /\ tick' = other.tick
  /\ status' = other.status
  /\ PC' = other.PC
  /\ program' = other.program
  /\ reg' = other.reg
  /\ mem' = other.mem
  /\ ctl' = other.ctl
  /\ loaded' = other.loaded
  /\ starts' = other.starts
  /\ executed' = other.executed
  /\ run' = other.run
  /\ last' = other.last
  /\ UNCHANGED <<regb_low, fault>>

TwoLoad(k) == loaded = 0 /\ starts = 0 /\ loadProgram(k)

TwoStart(start_pc) == starts = 0 /\ start(start_pc)

TwoNext ==
  \/ \E k \in TwoProgramIds : TwoLoad(k)
  \/ \E start_pc \in TwoStartPCs : TwoStart(start_pc)
  \/ Cycle
  \/ Return
  \/ Switch

TwoSpec == Init /\ [][TwoNext]_vars

(***************************************************************************)
(* The representation of the arrays is canonical                           *)
(***************************************************************************)
\* Every element of array a is v
AllEqual(a, v) == a.fill = v /\ DOMAIN a.cells = {}

Canonical(a) ==
  /\ DOMAIN a.cells \subseteq 0..(a.size - 1)
  /\ \A i \in DOMAIN a.cells : a.cells[i] # a.fill

TypeOK ==
  /\ tick \in Nat
  /\ status \in {"running", "stopped"}
  /\ PC \in 0..(WORD_RANGE - 1)
  /\ program.size = pro_size /\ Canonical(program)
  /\ mem.size = mem_size /\ Canonical(mem)
  /\ reg \in [0..(reg_size - 1) -> 0..(WORD_RANGE - 1)]
  /\ ctl \in {"idle", "start"}
  /\ fault \in {"none", "SIGFPE", "SIGABRT"}

(***************************************************************************)
(* Claims                                                                  *)
(***************************************************************************)
\* The last step completed an instruction with opcode c
Completed(c) == last.op = "cycle" /\ fault = "none" /\ last.ins.code = c

\* C1: a JAL(A,B) fetched from address p leaves reg[A] = (p+1) mod 65536,
\* the address of the next sequential instruction, and PC = the value reg[B]
\* had before the instruction.
C1_JalLinksNextInstruction ==
  Completed(OP_JAL) =>
    /\ reg[last.ins.rega] = (last.pc + 1) % 65536
    /\ PC = last.reg[regb(last.ins)]

\* C2: a DIV whose divisor register reg[C] is 0 produces no numeric result:
\* the engine reports the failure itself (the process is not killed by a
\* signal), Run State becomes Stopped and reg[A] keeps its value.
C2_DivByZeroIsSignalled ==
  (last.op = "cycle" /\ last.ins.code = OP_DIV /\ last.reg[regc(last.ins)] = 0) =>
    /\ fault = "none"
    /\ status = "stopped"
    /\ reg[last.ins.rega] = last.reg[last.ins.rega]

\* C3: opcode 0xE multiplies (mod 2^16) and costs 16 ticks; opcode 0xF
\* divides (unsigned integer division) and costs 32 ticks.
C3_OpcodeEMultipliesFDivides ==
  LET x == last.reg[regb(last.ins)]
      y == last.reg[regc(last.ins)]
  IN /\ Completed(14) =>
          /\ reg[last.ins.rega] = MulWrapped(x, y)
          /\ tick = last.tick + 16
     /\ (Completed(15) /\ y # 0) =>
          /\ reg[last.ins.rega] = x \div y
          /\ tick = last.tick + 32

\* C4: after reset(), in whatever state it is called, Clock = 0, Run State
\* = Stopped, each of the 16 registers is 0x0000, each of the 65536 memory
\* cells is 0xFFFF and each program-store slot holds the default STP.
C4_ResetClearsTheMachine ==
  last.op = "reset" =>
    /\ tick = 0
    /\ status = "stopped"
    /\ DOMAIN reg = 0..15 /\ \A r \in 0..15 : reg[r] = 0
    /\ mem.size = 65536 /\ AllEqual(mem, 65535)
    /\ program.size = 65536
    /\ AllEqual(program, [code |-> 0, rega |-> 0, byte |-> 0])

\* C4's case: reset() called after a program was loaded and run, with the
\* Clock, a register and a memory cell changed
C4_Witness ==
  /\ last.op = "reset"
  /\ last.tick > 0
  /\ last.loaded # 0
  /\ \E r \in 0..15 : last.reg[r] # 0
  /\ ~AllEqual(last.mem, 65535)
  /\ last.PC # 0

\* C5: after reset(), also after a run that left PC non-zero, PC = 0.
C5_ResetClearsPC == last.op = "reset" => PC = 0

\* The tick costs of the opcode table, opcode 0x0 first
OpcodeCost == <<2, 4, 6, 6, 12, 8, 4, 4, 4, 4, 4, 4, 8, 8, 16, 32>>

RECURSIVE SumCost(_)
SumCost(ops) ==
  IF ops = <<>> THEN 0 ELSE OpcodeCost[Head(ops) + 1] + SumCost(Tail(ops))

\* C6: in every reachable state the Clock is the sum, over the instructions
\* executed since the last reset, of the fixed cost of each one's opcode:
\* operands, register contents and branch outcomes do not enter.
C6_ClockIsSumOfOpcodeCosts == tick = SumCost(executed)

\* C6's case: several instructions executed, the last one a taken branch,
\* an earlier one a branch not taken (JumpProgram from address 1)
C6_Witness ==
  /\ last.op = "cycle"
  /\ last.ins.code \in {OP_JIE, OP_JIL}
  /\ PC # (last.pc + 1) % 65536
  /\ Len(executed) >= 4
  /\ \E i \in 1..Len(executed) : executed[i] \notin {OP_JIE, OP_JIL, OP_STP}

\* C7: if the instruction at the start address is STP, start() executes
\* exactly one instruction and returns with Run State = Stopped, the Clock
\* increased by exactly 2, registers and memory unchanged.
C7_StpAtStartHaltsAtOnce ==
  (run.n >= 1 /\ At(program, run.pc).code = OP_STP
     /\ (ctl = "start" \/ last.op = "return")) =>
    /\ run.n = 1
    /\ status = "stopped"
    /\ tick = run.tick + 2
    /\ reg = run.reg
    /\ mem = run.mem

\* C7's case: start() has returned from a program consisting solely of STP,
\* run on a machine an earlier run left with a non-zero Clock and register
C7_Witness ==
  /\ last.op = "return"
  /\ loaded = 1
  /\ run.pc = 0
  /\ run.tick > 0
  /\ \E r \in 0..15 : reg[r] # 0
  /\ ~AllEqual(mem, 65535)

\* C8, the states: inside start's loop Run State is Stopped exactly when a
\* STP has been executed in this call, at most one STP is executed, and
\* start has returned only after one
C8_Inv ==
  /\ ctl = "start" => (status = "stopped" <=> run.stp >= 1)
  /\ ctl = "start" /\ run.stp = 0 => status = "running"
  /\ run.stp <= 1
  /\ last.op = "return" => (run.stp = 1 /\ status = "stopped")

\* C8, the steps: the step after an executed STP is start's return, and no
\* other step leaves the loop
C8_Step ==
  /\ (ctl = "start" /\ Completed(OP_STP)) => (last'.op = "return" /\ ctl' = "idle")
  /\ (ctl = "start" /\ ctl' = "idle") => Completed(OP_STP)

\* C8: start(initialPC) returns if and only if the execution from initialPC
\* executes a STP; it returns right after the first STP, with Run State =
\* Stopped; while no STP is executed the loop goes on and Run State stays
\* Running.
C8_StartReturnsIffStp ==
  /\ []C8_Inv
  /\ [][C8_Step]_vars
  /\ (ctl = "start" /\ status = "stopped") ~> (ctl = "idle")

\* C8's case: a first start() has returned after its STP, and a second one
\* is going round a program that holds no reachable STP, still Running
C8_Witness ==
  /\ ctl = "start"
  /\ starts = 2
  /\ loaded = 5
  /\ run.pc = 0
  /\ run.stp = 0
  /\ run.n >= 4
  /\ status = "running"
  /\ run.tick > 0

\* C9: loadProgram with more than 65536 instructions is rejected with a
\* precondition failure: the call fails and the store is not loaded with
\* the first 65536 of them.
C9_TooLongIsRejected ==
  (last.op = "load" /\ Programs(regb_low, last.arg).size > 65536) =>
    /\ fault # "none"
    /\ program = last.program

\* The indices at which the store, the store before the call or the
\* argument differ from a default instruction, and the ends of both
LoadProbe(in_program) ==
  (DOMAIN program.cells \cup DOMAIN last.program.cells \cup DOMAIN in_program.cells
     \cup {0, in_program.size - 1, in_program.size, 65535}) \cap 0..65535

\* C10: after loadProgram(seq) with len(seq) <= 65536, whatever the store
\* held, program[i] = seq[i] for i < len(seq) and the default STP for
\* len(seq) <= i < 65536; registers, memory, Clock, PC and Run State are
\* unchanged.  (Outside LoadProbe every slot of the store reads its fill.)
C10_LoadCopiesAndFills ==
  LET in_program == Programs(regb_low, last.arg)
  IN (last.op = "load" /\ in_program.size <= 65536) =>
       /\ program.size = 65536
       /\ program.fill = [code |-> 0, rega |-> 0, byte |-> 0]
       /\ \A i \in LoadProbe(in_program) :
            At(program, i) = IF i < in_program.size THEN At(in_program, i)
                             ELSE [code |-> 0, rega |-> 0, byte |-> 0]
       /\ reg = last.reg
       /\ mem = last.mem
       /\ tick = last.tick
       /\ PC = last.PC
       /\ status = last.status

\* C10's case: a shorter program loaded over a longer one, after a run that
\* changed the Clock, a register, memory and PC
C10_Witness ==
  LET in_program == Programs(regb_low, last.arg)
  IN /\ last.op = "load"
     /\ in_program.size <= 65536
     /\ \E i \in DOMAIN last.program.cells : i >= in_program.size
     /\ \E i \in DOMAIN in_program.cells : At(last.program, i) # At(in_program, i)
     /\ tick > 0
     /\ PC # 0
     /\ ~AllEqual(mem, 65535)

\* The last step fetched an instruction with opcode c (it may have been
\* killed inside its handler)
Fetched(c) == last.op = "cycle" /\ last.ins.code = c

\* C11: for all register indices a, b, c (a = b, a = c, b = c included) and
\* all 16-bit contents, the ADD, SUB and MUL handlers leave reg[a] =
\* (reg[b] + reg[c]) mod 65536, (reg[b] - reg[c]) mod 65536 and
\* (reg[b] * reg[c]) mod 65536, computed from the values before the
\* instruction, and never trap on overflow.
C11_ArithmeticWraps ==
  LET x == last.reg[regb(last.ins)]
      y == last.reg[regc(last.ins)]
  IN /\ Fetched(OP_ADD) =>
          (fault = "none" /\ reg[last.ins.rega] = (x + y) % 65536)
     /\ Fetched(OP_SUB) =>
          (fault = "none" /\ reg[last.ins.rega] = (x - y) % 65536)
     /\ Fetched(OP_MUL) =>
          (fault = "none" /\ reg[last.ins.rega] = MulWrapped(x, y))

\* C12: for all register indices and 16-bit contents, NND leaves reg[a] =
\* 0xFFFF XOR (reg[b] AND reg[c]), a value in 0..65535.
C12_NndIsComplementOfAnd ==
  LET x == last.reg[regb(last.ins)]
      y == last.reg[regc(last.ins)]
  IN Fetched(OP_NND) =>
       /\ fault = "none"
       /\ reg[last.ins.rega] = BitXor(65535, BitAnd(x, y))
       /\ reg[last.ins.rega] \in 0..65535

\* C12's case: NND of 0xFFFF and 0xFFFF has given 0x0000
C12_Witness ==
  /\ Completed(OP_NND)
  /\ last.reg[regb(last.ins)] = 65535
  /\ last.reg[regc(last.ins)] = 65535
  /\ reg[last.ins.rega] = 0

\* C13: SHB leaves reg[a] = (v AND 0x00FF) OR (imm << 8) and SLB leaves
\* reg[a] = (v AND 0xFF00) OR imm, v the prior value of reg[a]: each changes
\* only its own byte of reg[a], no other register and no memory cell.
C13_SetByteTouchesOneByte ==
  LET a == last.ins.rega
      v == last.reg[a]
      imm == last.ins.byte
  IN (Fetched(OP_SHB) \/ Fetched(OP_SLB)) =>
       /\ fault = "none"
       /\ imm \in 0..255
       /\ Fetched(OP_SHB) => reg[a] = (v % 256) + 256 * imm
       /\ Fetched(OP_SLB) => reg[a] = 256 * (v \div 256) + imm
       /\ \A r \in 0..15 : r # a => reg[r] = last.reg[r]
       /\ mem = last.mem

\* C13's case: SHB with imm = 0xAB on reg[A] = 0x00CD, another register
\* and a memory cell holding values of their own
C13_Witness ==
  /\ Completed(OP_SHB)
  /\ last.ins.byte = 171
  /\ last.reg[last.ins.rega] = 205
  /\ reg[last.ins.rega] = 43981
  /\ \E r \in 0..15 : r # last.ins.rega /\ reg[r] # 0
  /\ ~AllEqual(mem, 65535)

\* C14: instruction encode/decode round-trips with one shared low byte: for
\* all 4-bit op, a, b, c the instruction built from (op, a, b, c) decodes to
\* opcode = op, regA = a, regB = b, regC = c and byte = 16*b + c (regB is
\* the high nibble of the low byte); for all 8-bit imm the instruction built
\* from (op, a, imm) decodes to byte = imm, regB = imm div 16, regC = imm
\* mod 16.  Stated of the opcode and regA of each instruction the engine
\* decodes, with every b, c and imm.
C14_FieldsShareTheLowByte ==
  last.op = "cycle" =>
    LET op == last.ins.code
        a == last.ins.rega
    IN /\ \A b \in 0..15, c \in 0..15 :
            LET d == Instruction4(regb_low, op, a, b, c)
            IN /\ d.code = op
               /\ d.rega = a
               /\ regb(d) = b
               /\ regc(d) = c
               /\ d.byte = 16 * b + c
       /\ \A imm \in 0..255 :
            LET d == Instruction3(op, a, imm)
            IN /\ d.code = op
               /\ d.rega = a
               /\ d.byte = imm
               /\ regb(d) = imm \div 16
               /\ regc(d) = imm % 16

\* C17: each of the 16 opcode values 0x0..0xF is dispatched by RUN to a
\* handler, never to the fall-through: every executed instruction has an
\* opcode in 0..15 and adds that opcode's table cost to the Clock.
C17_EveryOpcodeIsDispatched ==
  (last.op = "cycle" /\ fault = "none") =>
    /\ last.ins.code \in 0..15
    /\ tick = last.tick + OpcodeCost[last.ins.code + 1]

\* C17's case: an instruction of every one of the 16 opcodes has been
\* executed since the last reset
C17_Witness ==
  /\ last.op = "cycle"
  /\ fault = "none"
  /\ {executed[i] : i \in 1..Len(executed)} = 0..15

\* A register-to-register or load/store instruction: not STP, not a jump
Sequential(c) == c \notin {OP_STP, OP_JAL, OP_JIE, OP_JIL}

\* C18, the states: an executed sequential instruction fetched at p leaves
\* PC = (p+1) mod 65536, so 0 after address 65535, and Run State Running
C18_Inv ==
  (last.op = "cycle" /\ fault = "none" /\ Sequential(last.ins.code)) =>
    /\ PC = (last.pc + 1) % 65536
    /\ last.pc = 65535 => PC = 0
    /\ status = "running"

\* C18, the steps: Run State goes from Running to Stopped only by an
\* executed STP or by reset(), and the fetch that follows a sequential
\* instruction at address 65535 is from address 0
C18_Step ==
  /\ (status = "running" /\ status' = "stopped") =>
       (last'.op = "reset" \/ (last'.op = "cycle" /\ last'.ins.code = OP_STP))
  /\ (last.op = "cycle" /\ fault = "none" /\ Sequential(last.ins.code)
        /\ last.pc = 65535 /\ last'.op = "cycle") =>
       (last'.pc = 0 /\ last'.ins = At(program, 0))

\* C18: PC increments modulo 65536 on every fetch and the engine never
\* stops by itself at the end of the store: after a sequential instruction
\* fetched from 65535 while Running the next fetch is from address 0 with
\* Run State still Running; Running becomes Stopped only by STP or reset().
C18_WrapsAndNeverStopsItself == []C18_Inv /\ [][C18_Step]_vars

\* C18's case: a run started at 65535 on a full-length program has executed
\* the instruction in the last slot and then fetched from address 0
C18_Witness ==
  /\ last.op = "cycle"
  /\ last.pc = 0
  /\ run.pc = 65535
  /\ run.n = 2
  /\ loaded = 6
  /\ At(program, 65535).code = OP_SLB

\* C19: in every reachable state and for every instruction word, every
\* array access is in range: register indices in 0..15, STR/LOD addresses
\* in 0..65535, the fetch address in 0..65535, the tick-table index in
\* 0..15, and every register and memory cell holds a value in 0..65535.
C19_AccessesInRange ==
  /\ PC \in 0..65535
  /\ DOMAIN reg = 0..15
  /\ \A r \in 0..15 : reg[r] \in 0..65535
  /\ mem.size = 65536 /\ mem.fill \in 0..65535
  /\ \A i \in DOMAIN mem.cells : i \in 0..65535 /\ mem.cells[i] \in 0..65535
  /\ program.size = 65536
  /\ \A i \in DOMAIN program.cells \cup {PC} :
       /\ i \in 0..65535
       /\ At(program, i).code \in 0..15
       /\ At(program, i).rega \in 0..15
       /\ regb(At(program, i)) \in 0..15
       /\ regc(At(program, i)) \in 0..15
       /\ At(program, i).byte \in 0..255
  /\ last.op = "cycle" =>
       /\ last.pc \in 0..65535
       /\ last.ins.code \in 0..15
       /\ {last.ins.rega, regb(last.ins), regc(last.ins)} \subseteq 0..15
       /\ last.ins.code \in {OP_STR, OP_LOD} =>
            last.reg[regb(last.ins)] \in 0..65535

\* C19's case: a STR to the last memory cell has been executed, with a
\* register holding 0xFFFF
C19_Witness ==
  /\ Completed(OP_STR)
  /\ last.reg[regb(last.ins)] = 65535
  /\ 65535 \in DOMAIN mem.cells
  /\ \E r \in 0..15 : reg[r] = 65535

\* C20: JIE(A,B,C) fetched at p leaves PC = reg[C] if reg[A] = reg[B] and
\* (p+1) mod 65536 otherwise; JIL(A,B,C) leaves PC = reg[C] if reg[A] <
\* reg[B] as unsigned 16-bit values and (p+1) mod 65536 otherwise; neither
\* changes a register or a memory cell.
C20_ConditionalJumps ==
  LET a == last.reg[last.ins.rega]
      b == last.reg[regb(last.ins)]
      target == last.reg[regc(last.ins)]
      next == (last.pc + 1) % 65536
  IN /\ Fetched(OP_JIE) => PC = IF a = b THEN target ELSE next
     /\ Fetched(OP_JIL) => PC = IF a < b THEN target ELSE next
     /\ (Fetched(OP_JIE) \/ Fetched(OP_JIL)) =>
          (fault = "none" /\ reg = last.reg /\ mem = last.mem)

\* C20's case: a JIL with reg[A] = 0x0001 and reg[B] = 0xFFFF has been taken
C20_Witness ==
  /\ Completed(OP_JIL)
  /\ last.reg[last.ins.rega] = 1
  /\ last.reg[regb(last.ins)] = 65535
  /\ PC = last.reg[regc(last.ins)]
  /\ PC # (last.pc + 1) % 65536

\* C15: the engine exposes a single-step primitive that, in either Run
\* State, fetches program[PC], increments PC, executes that one instruction
\* and returns its ticks, and start(pc) is PC = pc, Running, then that
\* primitive repeated until Stopped.  The one fetch-and-execute step of the
\* engine is Cycle, the body of start's loop: stated here is that a host
\* that has loaded a program and is not inside start() can take it,
\* whatever the Run State.
C15_SingleStepInEitherState ==
  (ctl = "idle" /\ fault = "none" /\ loaded # 0 /\ tick <= MaxTick) => ENABLED Cycle

\* The members of CPU object i
Inst(i) ==
  IF other.id = i
  THEN <<other.tick, other.status, other.PC, other.program, other.reg, other.mem>>
  ELSE cpu

\* What object i's thread has done: the program loaded, the start address
\* and the number of instruction steps taken
Done(i) ==
  IF other.id = i
  THEN <<other.loaded, other.starts, other.run.pc, Len(other.executed)>>
  ELSE <<loaded, starts, run.pc, Len(executed)>>

\* C16, the states: two objects whose threads have done the same (same
\* program, same start address, same number of steps) hold the same
\* members, however the steps of the two were interleaved
C16_Inv == Done(1) = Done(2) => Inst(1) = Inst(2)

\* C16, the steps: the members of an object change only by a step of its
\* own thread, never by a step of the other object
C16_Step == \A i \in {1, 2} : Inst(i)' # Inst(i) => (other.id # i /\ other'.id # i)

\* C16: two CPU instances share no mutable state: under every interleaving
\* of the instruction steps of two instances, each instance's registers,
\* memory, program store, PC, Clock and Run State after its k-th step are
\* what they would be had that instance run alone.
C16_InstancesAreIndependent == []C16_Inv /\ [][C16_Step]_vars

\* C16's case: both objects are inside start() at once, on the same program
\* from the same address, each three or more instructions in
C16_Witness ==
  /\ ctl = "start" /\ other.ctl = "start"
  /\ loaded = 3 /\ other.loaded = 3
  /\ run.pc = other.run.pc
  /\ run.n >= 3
  /\ other.run.n = run.n
  /\ status = "running" /\ other.status = "running"
  /\ \E r \in 0..15 : reg[r] # 0

\* C21: for a JAL with regA = regB, fetched from address p, PC becomes the
\* value the register held before the instruction and the register then
\* holds the link value, (p+1) mod 65536, the address of the next
\* sequential instruction, not the jump target: the target is read before
\* the link is written.
C21_LinkRegisterIsTarget ==
  (Completed(OP_JAL) /\ last.ins.rega = regb(last.ins)) =>
    /\ PC = last.reg[last.ins.rega]
    /\ reg[last.ins.rega] = (last.pc + 1) % 65536

\* Arrays a and b hold the same values at every index outside S
SameOutside(a, b, S) ==
  /\ a.size = b.size
  /\ a.fill = b.fill
  /\ \A i \in (DOMAIN a.cells \cup DOMAIN b.cells) \ S : At(a, i) = At(b, i)

\* C24: an instruction execution changes at most PC, the Clock, the Run
\* State (STP only), the one register reg[regA] (no register at all for
\* STP, JIE, JIL and STR) and the one memory cell mem[reg[regB]] (STR
\* only); every other register, every other memory cell and the program
\* store are as they were before the instruction.
C24_InstructionFrame ==
  (last.op = "cycle" /\ fault = "none") =>
    LET data == last.ins
        c == data.code
    IN /\ program = last.program
       /\ status # last.status => c = OP_STP
       /\ \A i \in 0..(reg_size - 1) :
            (i # data.rega \/ c \in {OP_STP, OP_JIE, OP_JIL, OP_STR})
              => reg[i] = last.reg[i]
       /\ IF c = OP_STR
          THEN SameOutside(mem, last.mem, {last.reg[regb(data)]})
          ELSE SameOutside(mem, last.mem, {})

\* An STR has changed its cell while another cell, written earlier, and
\* the other registers hold values of their own
C24_Witness ==
  /\ Completed(OP_STR)
  /\ At(mem, last.reg[regb(last.ins)]) # At(last.mem, last.reg[regb(last.ins)])
  /\ last.reg[last.ins.rega] # last.reg[regb(last.ins)]
  /\ \E a \in DOMAIN last.mem.cells :
       a # last.reg[regb(last.ins)] /\ At(mem, a) # mem.fill
  /\ \E i \in 0..(reg_size - 1) : i # last.ins.rega /\ reg[i] # init_reg

\* The opcodes executed in the current start() call, and those executed
\* before it since the last reset
ThisRun == SubSeq(executed, Len(executed) - run.n + 1, Len(executed))
EarlierRuns == SubSeq(executed, 1, Len(executed) - run.n)

\* C25: start(pc) assigns PC and the Run State and nothing else: the
\* Clock, the registers, the memory and the program store are as the call
\* found them.  So the Clock a run finds is the sum of the tick costs of the
\* instructions of the earlier runs since the last reset, the Clock
\* afterwards is that plus the costs of the run's own instructions, and
\* the run's first instruction meets the registers and the memory the
\* earlier run left.
C25_StartKeepsClockRegistersMemory ==
  /\ last.op = "start" =>
       /\ PC = last.arg
       /\ status = "running"
       /\ tick = last.tick
       /\ reg = last.reg
       /\ mem = last.mem
       /\ program = last.program
  /\ starts > 0 =>
       /\ run.n <= Len(executed)
       /\ run.tick = SumCost(EarlierRuns)
       /\ tick = run.tick + SumCost(ThisRun)
  /\ (starts > 0 /\ last.op = "cycle" /\ run.n = 1 /\ fault = "none") =>
       /\ last.reg = run.reg
       /\ last.mem = run.mem
       /\ last.tick = run.tick

\* A second start() without a reset between has returned: it found a
\* Clock above zero, registers and memory written by the first run, and
\* added its own instructions' ticks
C25_Witness ==
  /\ starts = 2
  /\ last.op = "return"
  /\ run.tick > 0
  /\ run.n > 1
  /\ Len(executed) > run.n
  /\ tick > run.tick
  /\ \E i \in 0..(reg_size - 1) : run.reg[i] # init_reg
  /\ \E a \in DOMAIN run.mem.cells : At(run.mem, a) # init_mem

(***************************************************************************)
(* The variant of the CPU without a Run State (src/unnamed/part_001): no   *)
(* status member and no start(); the host calls CYCLE() for one            *)
(* instruction, and STP steps PC back onto itself at no cost.  The         *)
(* variable status is no member here and never changes.  Instruction is    *)
(* one WORD read by shifts and masks, so byte = 16 * regb + regc: regb is  *)
(* the high nibble.  The handlers other than STP, and the entries of       *)
(* tick_count other than the first, are those of SDISC.hpp word for word. *)
(***************************************************************************)
\* Instruction::regb() is (data >> 4) & 0xf
spin_regb_low == FALSE

\* OP::tick_count of the variant, indexed by opcode + 1
SpinTickTable == <<0, 4, 6, 6, 12, 8, 4, 4, 4, 4, 4, 4, 8, 8, 16, 32>>

\* addTicks of the variant
SpinAddTicks(data) == tick' = tick + SpinTickTable[data.code + 1]

\* The variant's STP as it would be at the cost STP has in SDISC.hpp
SpinSTP_CostsTicks(data, pc) ==
  /\ PC' = ToWORD(pc - 1)
  /\ addTicks(data)
  /\ UNCHANGED <<reg, mem, status, fault>>

\* --PC; return addTicks(data)
SpinSTP(data, pc) ==
  /\ PC' = ToWORD(pc - 1)
  /\ SpinAddTicks(data)
  /\ UNCHANGED <<reg, mem, status, fault>>

\* RUN of the variant: the same chain of comparisons
SpinRUN(data, pc) ==
  IF data.code = OP_STP THEN SpinSTP(data, pc) ELSE RUN(data, pc)

\* the most CYCLE() calls followed between two resets
MaxCycles == 8

\* Set r2 = 0xFFFF and r3 = 7, store r3 at mem[0xFFFF], jump to 0xFFFF,
\* where the store holds the STP loadProgram filled it with
SpinProgram ==
  << Instruction3(OP_SHB, 2, 255),
     Instruction3(OP_SLB, 2, 255),
     Instruction3(OP_SLB, 3, 7),
     Instruction4(spin_regb_low, OP_STR, 3, 2, 0),
     Instruction4(spin_regb_low, OP_JAL, 1, 2, 0) >>

SpinProgramIds == {1, 2, 3}

SpinPrograms(k) ==
  CASE k = 1 -> Vec(StopProgram)
    [] k = 2 -> Vec(JumpProgram(spin_regb_low))
    [] k = 3 -> Vec(SpinProgram)

\* The constructor's reset(), and PC = 0 from its member initializer
SpinInit ==
  /\ tick = 0
  /\ status = "stopped"
  /\ PC = 0
  /\ program = Arr(pro_size, init_pro)
  /\ mem = Arr(mem_size, init_mem)
  /\ reg = [i \in 0..(reg_size - 1) |-> init_reg]
  /\ regb_low = spin_regb_low
  /\ ctl = "idle"
  /\ fault = "none"
  /\ loaded = 0
  /\ starts = 0
  /\ executed = <<>>
  /\ run = RunRecord(0)
  /\ last = Snapshot("none", 0, init_pro, 0)
  /\ other = Parked(2)

\* reset() of the variant
SpinReset ==
  /\ ctl = "idle"
  /\ fault = "none"
  /\ tick' = 0
  /\ program' = Arr(pro_size, init_pro)
  /\ mem' = Arr(mem_size, init_mem)
  /\ reg' = [i \in 0..(reg_size - 1) |-> init_reg]
  /\ last' = Snapshot("reset", PC, init_pro, 0)
  /\ loaded' = 0
  /\ starts' = 0
  /\ executed' = <<>>
  /\ run' = RunRecord(PC)
  /\ UNCHANGED <<PC, status, regb_low, ctl, fault, other>>

\* loadProgram of the variant, for an in_program no longer than the store:
\* every slot is set to Instruction(), then in_program is copied from
\* slot 0 on.  The host loads before it steps, once in a row.
SpinLoad(k) ==
  /\ ctl = "idle"
  /\ fault = "none"
  /\ executed = <<>>
  /\ last.op # "load"
  /\ SpinPrograms(k).size <= pro_size
  /\ program' = [size |-> pro_size, fill |-> Instruction0,
                 cells |-> SpinPrograms(k).cells]
  /\ last' = Snapshot("load", PC, init_pro, k)
  /\ loaded' = k
  /\ run' = RunRecord(PC)
  /\ UNCHANGED <<tick, status, PC, reg, mem, regb_low, ctl, fault, starts,
                 executed, other>>

\* The host assigns the public member PC
SpinSetPC(pc) ==
  /\ ctl = "idle"
  /\ fault = "none"
  /\ starts < MaxStarts
  /\ PC' = pc
  /\ starts' = starts + 1
  /\ last' = Snapshot("setpc", PC, init_pro, pc)
  /\ run' = RunRecord(pc)
  /\ UNCHANGED <<tick, status, program, reg, mem, regb_low, ctl, fault,
                 loaded, executed, other>>

\* CYCLE(): RUN(program[PC++])
SpinCycle ==
  /\ ctl = "idle"
  /\ fault = "none"
  /\ Len(executed) < MaxCycles
  /\ LET data == At(program, PC)
     IN /\ SpinRUN(data, ToWORD(PC + 1))
        /\ last' = Snapshot("cycle", PC, data, 0)
        /\ executed' = IF fault' = "none" THEN Append(executed, data.code) ELSE executed
        /\ run' = IF fault' = "none"
                  THEN [run EXCEPT !.n = @ + 1,
                                   !.stp = @ + (IF data.code = OP_STP THEN 1 ELSE 0)]
                  ELSE run
  /\ UNCHANGED <<program, regb_low, ctl, loaded, starts, other>>

SpinNext ==
  \/ SpinReset
  \/ \E k \in SpinProgramIds : SpinLoad(k)
  \/ \E pc \in StartPCs : SpinSetPC(pc)
  \/ SpinCycle

SpinSpec == SpinInit /\ [][SpinNext]_vars

\* After an STP fetched from p, PC is p again and nothing else has changed
C22_Inv ==
  Completed(OP_STP) =>
    /\ PC = last.pc
    /\ tick = last.tick
    /\ reg = last.reg
    /\ mem = last.mem
    /\ program = last.program

\* A CYCLE() that follows an executed STP fetches that STP again and
\* leaves PC, the Clock, the registers and the memory as they were
C22_Step ==
  (Completed(OP_STP) /\ last'.op = "cycle") =>
    /\ last'.pc = last.pc
    /\ last'.ins.code = OP_STP
    /\ fault' = "none"
    /\ PC' = PC
    /\ tick' = tick
    /\ reg' = reg
    /\ mem' = mem

\* C22: in the variant without a Run State, once CYCLE() has executed an
\* STP fetched from address p, every later CYCLE() leaves PC = p and the
\* Clock, the registers and the memory unchanged, for every p, 0 and 65535
\* included: the machine spins on the STP.
C22_SpinsOnStp == []C22_Inv /\ [][C22_Step]_vars

\* The program has jumped to the STP at 65535 after writing registers and
\* memory, and CYCLE() has executed that STP three times
C22_Witness ==
  /\ Completed(OP_STP)
  /\ last.pc = WORD_RANGE - 1
  /\ PC = WORD_RANGE - 1
  /\ run.stp >= 3
  /\ tick > 0
  /\ reg[2] = WORD_RANGE - 1
  /\ At(mem, WORD_RANGE - 1) = 7

(***************************************************************************)
(* The legacy lisc::CPU (src/unnamed/part_000, LISC16_HPP): registers, a   *)
(* memory of 0x100000 words and PC, all zero after construction, and one   *)
(* public operation, runInstruction, which the host calls with an          *)
(* instruction value.  There is no Clock, no Run State and no fetch; tick, *)
(* status and program are no part of it and never change.  Instruction has *)
(* the bit-fields opcode, rega and the byte shared by regb and regc, laid  *)
(* out as the build chooses (regb_low).                                    *)
(***************************************************************************)
LISC_JIE == 0
LISC_JAL == 1
LISC_STR == 4
LISC_LOD == 5
LISC_SHB == 6
LISC_SLB == 7
LISC_AND == 8
LISC_NND == 9
LISC_IOR == 10
LISC_XOR == 11
LISC_ADD == 12
LISC_SUB == 13
LISC_MUL == 14
LISC_DIV == 15

\* uint16_t mem[0x100000]
lisc_mem_size == 1048576

\* reg[data.rega] = v
LiscSetRegA(data, v) ==
  /\ reg' = [reg EXCEPT ![data.rega] = ToWORD(v)]
  /\ UNCHANGED <<PC, mem, fault>>

\* The process is killed by a signal inside the handler
LiscKilled(sig) ==
  /\ fault' = sig
  /\ UNCHANGED <<PC, reg, mem>>

\* (data.regb << 16) | reg[data.regc]
LiscAddress(data) == regb(data) * WORD_RANGE + reg[regc(data)]

\* if(reg[rega] == reg[regb]) PC = data.regc: the field itself is the target
LiscJIE(data) ==
  /\ PC' = IF reg[data.rega] = reg[regb(data)] THEN regc(data) ELSE PC
  /\ UNCHANGED <<reg, mem, fault>>

\* reg[rega] = PC+1; PC = data.regb
LiscJAL(data) ==
  /\ reg' = [reg EXCEPT ![data.rega] = ToWORD(PC + 1)]
  /\ PC' = regb(data)
  /\ UNCHANGED <<mem, fault>>

LiscSTR(data) ==
  /\ mem' = Put(mem, LiscAddress(data), reg[data.rega])
  /\ UNCHANGED <<PC, reg, fault>>

LiscLOD(data) == LiscSetRegA(data, At(mem, LiscAddress(data)))

\* reg[rega] &= 0xff00; reg[rega] |= data.byte << 8
LiscSHB(data) ==
  LiscSetRegA(data, BitOr(BitAnd(reg[data.rega], 65280), data.byte * 256))

\* reg[rega] &= 0x00ff; reg[rega] |= data.byte
LiscSLB(data) ==
  LiscSetRegA(data, BitOr(BitAnd(reg[data.rega], 255), data.byte))

LiscAND(data) == LiscSetRegA(data, BitAnd(reg[regb(data)], reg[regc(data)]))

\* 0xffff ^ (reg[regb] & reg[regc])
LiscNND(data) ==
  LiscSetRegA(data, BitXor(65535, BitAnd(reg[regb(data)], reg[regc(data)])))

LiscIOR(data) == LiscSetRegA(data, BitOr(reg[regb(data)], reg[regc(data)]))

LiscXOR(data) == LiscSetRegA(data, BitXor(reg[regb(data)], reg[regc(data)]))

LiscADD(data) == LiscSetRegA(data, reg[regb(data)] + reg[regc(data)])

LiscSUB(data) == LiscSetRegA(data, reg[regb(data)] - reg[regc(data)])

\* The operands are promoted to int: a product above INT_MAX is undefined
LiscMUL(data) ==
  LET x == reg[regb(data)]
      y == reg[regc(data)]
  IN IF MulOverflows(x, y)
     THEN \/ LiscSetRegA(data, MulWrapped(x, y))
          \/ LiscKilled("SIGABRT")
     ELSE LiscSetRegA(data, x * y)

\* Division by zero is undefined
LiscDIV(data) ==
  LET x == reg[regb(data)]
      y == reg[regc(data)]
  IN IF y = 0
     THEN \/ LiscKilled("SIGFPE")
          \/ \E q \in DivZeroResults : LiscSetRegA(data, q)
     ELSE LiscSetRegA(data, x \div y)

NO_OPCODE(data) == UNCHANGED <<PC, reg, mem, fault>>

\* The chain of comparisons of runInstruction, in its order
LiscDispatch(data) ==
  IF data.code = LISC_JIE THEN LiscJIE(data)
  ELSE IF data.code = LISC_JAL THEN LiscJAL(data)
  ELSE IF data.code = LISC_STR THEN LiscSTR(data)
  ELSE IF data.code = LISC_LOD THEN LiscLOD(data)
  ELSE IF data.code = LISC_SHB THEN LiscSHB(data)
  ELSE IF data.code = LISC_SLB THEN LiscSLB(data)
  ELSE IF data.code = LISC_AND THEN LiscAND(data)
  ELSE IF data.code = LISC_NND THEN LiscNND(data)
  ELSE IF data.code = LISC_IOR THEN LiscIOR(data)
  ELSE IF data.code = LISC_XOR THEN LiscXOR(data)
  ELSE IF data.code = LISC_ADD THEN LiscLOD(data)
  ELSE IF data.code = LISC_SUB THEN LiscLOD(data)
  ELSE IF data.code = LISC_MUL THEN LiscMUL(data)
  ELSE IF data.code = LISC_DIV THEN LiscDIV(data)
  ELSE NO_OPCODE(data)

\* the most runInstruction calls the host makes
MaxCalls == 3

\* The instruction values the host passes: every opcode, and one value
\* (opcode 2) that is no enumerator
LiscInputs(low) ==
  { Instruction3(LISC_SLB, 1, 3),
    Instruction3(LISC_SLB, 2, 5),
    Instruction3(LISC_SHB, 2, 128),
    Instruction4(low, LISC_STR, 2, 1, 1),
    Instruction4(low, LISC_LOD, 3, 1, 1),
    Instruction4(low, LISC_ADD, 4, 1, 2),
    Instruction4(low, LISC_SUB, 5, 1, 2),
    Instruction4(low, LISC_MUL, 6, 2, 2),
    Instruction4(low, LISC_DIV, 7, 2, 1),
    Instruction4(low, LISC_AND, 8, 1, 2),
    Instruction4(low, LISC_NND, 9, 1, 2),
    Instruction4(low, LISC_IOR, 10, 1, 2),
    Instruction4(low, LISC_XOR, 11, 1, 2),
    Instruction4(low, LISC_JAL, 12, 9, 0),
    Instruction4(low, LISC_JIE, 1, 2, 7),
    Instruction4(low, 2, 1, 2, 3) }

\* The members' initializers: PC = 0 and every array element zero
LiscInit ==
  /\ tick = 0
  /\ status = "stopped"
  /\ PC = 0
  /\ program = Arr(pro_size, Instruction0)
  /\ mem = Arr(lisc_mem_size, 0)
  /\ reg = [i \in 0..15 |-> 0]
  /\ regb_low \in BOOLEAN
  /\ ctl = "idle"
  /\ fault = "none"
  /\ loaded = 0
  /\ starts = 0
  /\ executed = <<>>
  /\ run = RunRecord(0)
  /\ last = Snapshot("none", 0, Instruction0, 0)
  /\ other = Parked(2)

\* The host calls runInstruction(data)
runInstruction(data) ==
  /\ fault = "none"
  /\ Len(executed) < MaxCalls
  /\ LiscDispatch(data)
  /\ last' = Snapshot("run", PC, data, 0)
  /\ executed' = Append(executed, data.code)
  /\ UNCHANGED <<tick, status, program, regb_low, ctl, loaded, starts, run, other>>

LiscNext == \E data \in LiscInputs(regb_low) : runInstruction(data)

LiscSpec == LiscInit /\ [][LiscNext]_vars

\* C23: in the legacy lisc::CPU, runInstruction on an ADD instruction
\* (0xC) leaves reg[A] = (reg[B] + reg[C]) mod 65536 and on a SUB
\* instruction (0xD) leaves reg[A] = (reg[B] - reg[C]) mod 65536: each
\* opcode of the enum is dispatched to the handler of the same name.
C23_AddAndSubReachTheirHandlers ==
  (last.op = "run" /\ fault = "none") =>
    LET data == last.ins
        x == last.reg[regb(data)]
        y == last.reg[regc(data)]
    IN /\ data.code = LISC_ADD => reg[data.rega] = (x + y) % 65536
       /\ data.code = LISC_SUB => reg[data.rega] = (x - y) % 65536

====
